---------------------------- MODULE Spec2Model ----------------------------
(***************************************************************************)
(* A model of the MT5 bridge server (src/mt5_bridge_server.py): the        *)
(* MT5Bridge object, the streaming worker thread it starts, the request    *)
(* handlers that call into it and the WebSocket subscribe handler.         *)
(*                                                                         *)
(* The MetaTrader5 module ("the driver") is outside the repository.  Each  *)
(* call into it is modelled by its reply, chosen nondeterministically     *)
(* among: a value, None, and a raised exception.  mt5.shutdown() is the    *)
(* one call the code does not wrap in try/except; it is modelled as        *)
(* returning normally.                                                     *)
(***************************************************************************)
EXTENDS Integers, Sequences, FiniteSets, TLC

(***************************************************************************)
(* Bounds of the model.                                                    *)
(***************************************************************************)
\* how many of the seven major pairs the worker's watch-list holds
NumPairs == 2
\* bid and ask are drawn from 1..MaxPrice
MaxPrice == 2
\* account balances are drawn from 1..MaxBalance
MaxBalance == 2
\* position tickets are drawn from 1..MaxTicket
MaxTicket == 2
\* the driver lists at most MaxSyms symbols
MaxSyms == 1
\* thread objects that can exist at a time
MaxThreads == 2

(***************************************************************************)
(* Program constants.                                                      *)
(***************************************************************************)
\* symbols[:50]
SymbolLimit == 50

AllMajorPairs ==
  <<"EURUSD", "GBPUSD", "USDJPY", "USDCHF", "AUDUSD", "USDCAD", "NZDUSD">>

MajorPairs == SubSeq(AllMajorPairs, 1, NumPairs)

ORDER_TYPE_BUY == "ORDER_TYPE_BUY"
ORDER_TYPE_SELL == "ORDER_TYPE_SELL"
POSITION_TYPE_BUY == "POSITION_TYPE_BUY"
POSITION_TYPE_SELL == "POSITION_TYPE_SELL"
TRADE_RETCODE_DONE == "TRADE_RETCODE_DONE"
TRADE_RETCODE_REJECT == "TRADE_RETCODE_REJECT"

(***************************************************************************)
(* Python values.  None, a raised exception and a value are told apart by  *)
(* the field k.                                                            *)
(***************************************************************************)
None == [k |-> "none"]
Raise == [k |-> "raise"]
Val(v) == [k |-> "val", v |-> v]
IsVal(r) == r.k = "val"

Range(s) == {s[i] : i \in 1..Len(s)}
Take(s, n) == SubSeq(s, 1, IF Len(s) < n THEN Len(s) ELSE n)
Count(s, x) == Cardinality({i \in 1..Len(s) : s[i] = x})

(***************************************************************************)
(* State.  The first eight variables are the fields of MT5Bridge; thr      *)
(* holds the thread objects (slot 0 of data_thread is None); dis is the    *)
(* disconnect call in progress.                                            *)
(*                                                                         *)
(* The rest is what an observer of the program records.  While a request   *)
(* returns, ret is its result, calls the driver calls it made and sent     *)
(* the deals it submitted; Respond then hands the response over and        *)
(* clears them.  prev is the connect request answered last, if no other    *)
(* request followed it; e2e is the progress of the scenario connect ;      *)
(* accountInfo ; disconnect ; accountInfo; lastPub is the last             *)
(* market_data event broadcast for each symbol and unpub the symbols       *)
(* stored since their last broadcast.  An observer watches one aspect of   *)
(* the program at a time, named by probe, which never changes: the         *)
(* program's own steps are the same under every probe.                     *)
(*                                                                         *)
(* The last three variables belong to request handlers that run            *)
(* concurrently, statement by statement: con is the position of a connect  *)
(* request between MT5Bridge.connect and the end of start_data_stream,     *)
(* trade the position of a place_order or close_position call, and drv     *)
(* the driver as its callers leave it: up after a successful               *)
(* mt5.initialize() and until mt5.shutdown(), busy while an order_send     *)
(* call has not returned.                                                  *)
(***************************************************************************)
VARIABLES connected, account_info, symbols, market_data, positions, orders,
          data_thread, running, thr, dis,
          probe, ret, calls, sent, prev, e2e, lastPub, unpub,
          con, trade, drv

bridge == <<connected, account_info, symbols, market_data, positions, orders,
            data_thread, running>>
observed == <<probe, ret, calls, sent, prev, e2e>>
inflight == <<con, trade, drv>>
vars == <<connected, account_info, symbols, market_data, positions, orders,
          data_thread, running, thr, dis,
          probe, ret, calls, sent, prev, e2e, lastPub, unpub,
          con, trade, drv>>

(***************************************************************************)
(* What the driver can answer.  Where the handlers' statements interleave  *)
(* (probe "threads") each query has one value to answer with, besides      *)
(* None and an exception: no statement of the program branches on the      *)
(* value itself.                                                           *)
(***************************************************************************)
\* how many values a query answers with, of the most there are
Values(most) == IF probe = "threads" THEN 1 ELSE most

\* a tick: the ask lies one point above the bid
Ticks ==
  {[bid |-> b, ask |-> b + 1, time |-> 1, volume_real |-> 1] :
     b \in 1..Values(MaxPrice)}

Accounts == {[login |-> 1, balance |-> b] : b \in 1..Values(MaxBalance)}

\* the position the driver holds under a ticket, long or short
PositionOf(ticket, type) ==
  [ticket |-> ticket, type |-> type,
   symbol |-> MajorPairs[((ticket - 1) % NumPairs) + 1], volume |-> ticket]

PendingOrder == [ticket |-> 1, symbol |-> MajorPairs[1], volume |-> 1]

BoolReplies == {Val(TRUE), Val(FALSE), Raise}
TickReplies == {Raise, None} \cup {Val(t) : t \in Ticks}
AccountReplies == {Raise, None} \cup {Val(a) : a \in Accounts}
\* the first n symbol objects of the terminal, each with a name
SymbolObjects(n) == [i \in 1..n |-> [name |-> AllMajorPairs[i]]]
SymbolsReplies == {Raise, None} \cup {Val(SymbolObjects(n)) : n \in 0..MaxSyms}
\* the open positions the driver lists: those with tickets 1..n
OpenPositions(n) ==
  [i \in 1..n |-> PositionOf(i, IF i % 2 = 1 THEN POSITION_TYPE_BUY
                                             ELSE POSITION_TYPE_SELL)]
PositionsReplies ==
  {Raise, None} \cup {Val(OpenPositions(n)) : n \in 0..Values(MaxTicket)}
OrdersReplies == {Raise, None, Val(<<>>), Val(<<PendingOrder>>)}
InfoReplies == {Raise, None, Val([visible |-> TRUE])}
SendReplies ==
  {Raise, None,
   Val([retcode |-> TRADE_RETCODE_DONE, order |-> 1, comment |-> "Request executed"]),
   Val([retcode |-> TRADE_RETCODE_REJECT, order |-> 0, comment |-> "Rejected"])}

\* the driver answers the calls that are made: the replies to a call, or no
\* reply (None) when the code does not reach the call
Asked(reached, replies) == IF reached THEN replies ELSE {None}

Probes == {"lifecycle", "calls", "e2e", "stream", "threads"}

\* the requests whose results an observer records
Watched ==
  CASE probe = "lifecycle" -> {"connect_mt5", "disconnect"}
    [] probe = "calls" -> {"get_account_info", "get_positions", "get_orders",
                           "get_market_data", "place_order", "close_position"}
    [] probe = "e2e" -> {"get_account"}
    [] probe = "stream" -> {"subscribe"}
    [] OTHER -> {}

Threads == 1..MaxThreads

EmptyMap == [s \in {} |-> None]
Put(f, key, v) == [s \in (DOMAIN f) \cup {key} |-> IF s = key THEN v ELSE f[s]]

\* a thread object that is not running: never started, or finished
NoThread == [pc |-> "dead", idx |-> 0, data |-> None, iter |-> EmptyMap, pubd |-> {}]

NoRet == [op |-> "none"]
NoPrev == [op |-> "none"]
NoE2E == [stage |-> 0]
NoTrade == [pc |-> "idle", op |-> "none"]

Start ==
  /\ connected = FALSE
  /\ account_info = None
  /\ symbols = <<>>
  /\ market_data = EmptyMap
  /\ positions = <<>>
  /\ orders = <<>>
  /\ data_thread = 0
  /\ running = FALSE
  /\ thr = [t \in Threads |-> NoThread]
  /\ dis = [pc |-> "idle", target |-> 0, was |-> FALSE]
  /\ ret = NoRet
  /\ calls = <<>>
  /\ sent = <<>>
  /\ prev = NoPrev
  /\ e2e = NoE2E
  /\ lastPub = EmptyMap
  /\ unpub = {}
  /\ con = "idle"
  /\ trade = NoTrade
  /\ drv = [up |-> FALSE, busy |-> FALSE]

Init == Start /\ probe \in Probes

(***************************************************************************)
(* MT5Bridge.connect.  cred is "none" (no credentials), "numeric" or       *)
(* "text" (a login int() rejects).  The result names the return value,     *)
(* the fields the call leaves behind and the driver calls it made.         *)
(***************************************************************************)
\* [symbol.name for symbol in symbols[:50]]
SymbolNames(objs) ==
  LET cut == Take(objs, SymbolLimit) IN [i \in 1..Len(cut) |-> cut[i].name]

connect(cred, rInit, rLogin, rAcct, rSyms) ==
  LET fail(cs) ==
        [ok |-> FALSE, connected |-> connected, account_info |-> account_info,
         symbols |-> symbols, calls |-> cs]
      c1 == <<"initialize">>
      c2 == IF cred = "none" THEN c1 ELSE c1 \o <<"login">>
      c3 == c2 \o <<"account_info">>
      c4 == c3 \o <<"symbols_get">>
  IN  IF rInit # Val(TRUE) THEN fail(c1)
      ELSE IF cred = "text" THEN fail(c1)
      ELSE IF cred = "numeric" /\ rLogin # Val(TRUE) THEN fail(c2)
      ELSE IF ~IsVal(rAcct) THEN fail(c3)
      \* account_info and connected are assigned before the symbols are fetched
      ELSE IF rSyms = Raise
        THEN [ok |-> FALSE, connected |-> TRUE, account_info |-> Val(rAcct.v),
              symbols |-> symbols, calls |-> c4]
        ELSE [ok |-> TRUE, connected |-> TRUE, account_info |-> Val(rAcct.v),
              symbols |-> IF IsVal(rSyms) /\ Len(rSyms.v) > 0
                            THEN SymbolNames(rSyms.v) ELSE symbols,
              calls |-> c4]

(***************************************************************************)
(* The accessors.  Each result names the return value, the field the call  *)
(* leaves behind and the driver calls it made.                             *)
(***************************************************************************)
get_account_info(rAcct) ==
  IF ~connected
    THEN [out |-> None, account_info |-> account_info, calls |-> <<>>]
  ELSE IF IsVal(rAcct)
    THEN [out |-> Val(rAcct.v), account_info |-> Val(rAcct.v),
          calls |-> <<"account_info">>]
    ELSE [out |-> None, account_info |-> account_info,
          calls |-> <<"account_info">>]

\* a get_positions without the `if not self.connected` check
get_positions_unchecked(rPos) ==
  IF IsVal(rPos) /\ Len(rPos.v) > 0
    THEN [out |-> rPos.v, positions |-> rPos.v, calls |-> <<"positions_get">>]
    ELSE [out |-> <<>>, positions |-> positions, calls |-> <<"positions_get">>]

get_positions(rPos) ==
  IF ~connected
    THEN [out |-> <<>>, positions |-> positions, calls |-> <<>>]
  ELSE IF IsVal(rPos) /\ Len(rPos.v) > 0
    THEN [out |-> rPos.v, positions |-> rPos.v, calls |-> <<"positions_get">>]
    ELSE [out |-> <<>>, positions |-> positions, calls |-> <<"positions_get">>]

get_orders(rOrd) ==
  IF ~connected
    THEN [out |-> <<>>, orders |-> orders, calls |-> <<>>]
  ELSE IF IsVal(rOrd) /\ Len(rOrd.v) > 0
    THEN [out |-> rOrd.v, orders |-> rOrd.v, calls |-> <<"orders_get">>]
    ELSE [out |-> <<>>, orders |-> orders, calls |-> <<"orders_get">>]

\* the dictionary get_market_data builds from a tick
TickData(symbol, tick) ==
  [symbol |-> symbol, bid |-> tick.bid, ask |-> tick.ask,
   spread |-> tick.ask - tick.bid, timestamp |-> tick.time * 1000,
   volume |-> tick.volume_real]

get_market_data(symbol, rTick) ==
  IF ~connected
    THEN [out |-> None, calls |-> <<>>]
  ELSE IF IsVal(rTick)
    THEN [out |-> Val(TickData(symbol, rTick.v)), calls |-> <<"symbol_info_tick">>]
    ELSE [out |-> None, calls |-> <<"symbol_info_tick">>]

(***************************************************************************)
(* MT5Bridge.place_order and MT5Bridge.close_position.  Each result names  *)
(* the return value, the driver calls made and the deals submitted.        *)
(***************************************************************************)
Err(msg) == [tag |-> "error", msg |-> msg]
NotConnected == Err(<<"Not connected to MT5">>)

\* a place_order that prices a buy at the bid and a sell at the ask
OrderPriceSwapped(order_type, tick) ==
  IF order_type = ORDER_TYPE_BUY THEN tick.bid ELSE tick.ask

\* price = tick.ask if order_type == mt5.ORDER_TYPE_BUY else tick.bid
OrderPrice(order_type, tick) ==
  IF order_type = ORDER_TYPE_BUY THEN tick.ask ELSE tick.bid

OrderRequest(symbol, order_type, volume, price) ==
  [action |-> "TRADE_ACTION_DEAL", symbol |-> symbol, volume |-> volume,
   type |-> order_type, price |-> price, sl |-> None, tp |-> None,
   comment |-> "WingZero", type_time |-> "ORDER_TIME_GTC",
   type_filling |-> "ORDER_FILLING_IOC"]

\* a place_order that reports a refused deal without the venue's comment
OrderResultNoComment(rSend) ==
  IF ~IsVal(rSend) THEN Err(<<"exception">>)
  ELSE IF rSend.v.retcode # TRADE_RETCODE_DONE
    THEN Err(<<"Order failed">>)
    ELSE [tag |-> "success", order_id |-> rSend.v.order,
          retcode |-> rSend.v.retcode, comment |-> rSend.v.comment]

\* what place_order returns for the driver's answer to the submitted deal
OrderResult(rSend) ==
  IF ~IsVal(rSend) THEN Err(<<"exception">>)
  ELSE IF rSend.v.retcode # TRADE_RETCODE_DONE
    THEN Err(<<"Order failed", rSend.v.comment>>)
    ELSE [tag |-> "success", order_id |-> rSend.v.order,
          retcode |-> rSend.v.retcode, comment |-> rSend.v.comment]

place_order(symbol, order_type, volume, price, rInfo, rTick, rSend) ==
  LET c1 == <<"symbol_info">>
      c2 == IF price = None THEN c1 \o <<"symbol_info_tick">> ELSE c1
      stop(out, cs) == [out |-> out, calls |-> cs, sent |-> <<>>]
  IN  IF ~connected THEN stop(NotConnected, <<>>)
      ELSE IF rInfo = Raise THEN stop(Err(<<"exception">>), c1)
      ELSE IF rInfo = None THEN stop(Err(<<"Symbol not found", symbol>>), c1)
      ELSE IF price = None /\ rTick = Raise THEN stop(Err(<<"exception">>), c2)
      ELSE IF price = None /\ rTick = None
        THEN stop(Err(<<"Failed to get price", symbol>>), c2)
      ELSE LET p == IF price = None THEN OrderPrice(order_type, rTick.v)
                                    ELSE price.v
               req == OrderRequest(symbol, order_type, volume, p)
           IN  [out |-> OrderResult(rSend), calls |-> c2 \o <<"order_send">>,
                sent |-> <<req>>]

\* a close_position that closes with a deal of the position's own side
CloseTypeSameSide(position) ==
  IF position.type = POSITION_TYPE_BUY THEN ORDER_TYPE_BUY ELSE ORDER_TYPE_SELL

\* close_type = SELL if position.type == POSITION_TYPE_BUY else BUY
CloseType(position) ==
  IF position.type = POSITION_TYPE_BUY THEN ORDER_TYPE_SELL ELSE ORDER_TYPE_BUY

\* price = tick.bid if close_type == mt5.ORDER_TYPE_SELL else tick.ask
ClosePrice(close_type, tick) ==
  IF close_type = ORDER_TYPE_SELL THEN tick.bid ELSE tick.ask

CloseRequest(position, ticket, close_type, price) ==
  [action |-> "TRADE_ACTION_DEAL", symbol |-> position.symbol,
   volume |-> position.volume, type |-> close_type, position |-> ticket,
   price |-> price, comment |-> "WingZero Close",
   type_time |-> "ORDER_TIME_GTC", type_filling |-> "ORDER_FILLING_IOC"]

\* what close_position returns for the driver's answer to the submitted deal
CloseResult(rSend) ==
  IF ~IsVal(rSend) THEN Err(<<"exception">>)
  ELSE IF rSend.v.retcode # TRADE_RETCODE_DONE
    THEN Err(<<"Close failed", rSend.v.comment>>)
    ELSE [tag |-> "success", order_id |-> rSend.v.order,
          retcode |-> rSend.v.retcode]

\* a close_position that indexes the driver's answer without looking at it
PositionNeverMissing(rPos) == FALSE

\* if not position: return {"error": f"Position {ticket} not found"}
PositionMissing(rPos) == rPos = None \/ (IsVal(rPos) /\ Len(rPos.v) = 0)

close_position(ticket, rPos, rTick, rSend) ==
  LET c1 == <<"positions_get">>
      c2 == c1 \o <<"symbol_info_tick">>
      stop(out, cs) == [out |-> out, calls |-> cs, sent |-> <<>>]
  IN  IF ~connected THEN stop(NotConnected, <<>>)
      ELSE IF rPos = Raise THEN stop(Err(<<"exception">>), c1)
      ELSE IF PositionMissing(rPos)
        THEN stop(Err(<<"Position not found", ToString(ticket)>>), c1)
      \* position[0] of None or of an empty tuple raises
      ELSE IF ~IsVal(rPos) \/ Len(rPos.v) = 0 THEN stop(Err(<<"exception">>), c1)
      ELSE LET position == rPos.v[1]
               close_type == CloseType(position)
           IN  IF rTick = Raise THEN stop(Err(<<"exception">>), c2)
               ELSE IF rTick = None
                 THEN stop(Err(<<"Failed to get price", position.symbol>>), c2)
               ELSE LET req == CloseRequest(position, ticket, close_type,
                                            ClosePrice(close_type, rTick.v))
                    IN  [out |-> CloseResult(rSend),
                         calls |-> c2 \o <<"order_send">>, sent |-> <<req>>]

(***************************************************************************)
(* MT5Bridge.start_data_stream: the fields it leaves behind and whether    *)
(* it created a thread.                                                    *)
(***************************************************************************)
IsFree(t) == thr[t].pc = "dead"
FreeThread == CHOOSE t \in Threads : IsFree(t) /\ \A u \in 1..(t - 1) : ~IsFree(u)

start_data_stream ==
  IF running
    THEN [running |-> running, data_thread |-> data_thread, thr |-> thr,
          started |-> FALSE]
    ELSE [running |-> TRUE, data_thread |-> FreeThread,
          thr |-> [thr EXCEPT ![FreeThread] = [NoThread EXCEPT !.pc = "loop"]],
          started |-> TRUE]

(***************************************************************************)
(* What an observer records when a request returns.                        *)
(***************************************************************************)
\* the connect request that is being answered
Summary ==
  IF ret.op = "connect_mt5"
    THEN [op |-> "connect_mt5", conn |-> connected,
          inits |-> Count(calls, "initialize"),
          starts |-> IF ret.started THEN 1 ELSE 0]
    ELSE NoPrev

\* progress of connect ; accountInfo ; disconnect ; accountInfo, in which
\* the driver reports one balance throughout
E2EStep(r, rAcct) ==
  IF r.op = "connect_mt5" /\ r.ok
    THEN [stage |-> 1, bal |-> rAcct.v.balance, r1 |-> None]
  ELSE IF r.op = "get_account" /\ e2e.stage = 1 /\ IsVal(rAcct)
          /\ rAcct.v.balance = e2e.bal
    THEN [stage |-> 2, bal |-> e2e.bal, r1 |-> r.out]
  ELSE IF r.op = "disconnect" /\ e2e.stage = 2
    THEN [e2e EXCEPT !.stage = 3]
  ELSE IF r.op = "get_account" /\ e2e.stage = 3
    THEN [e2e EXCEPT !.stage = 4]
  ELSE NoE2E

Observe(r, cs, sn, rAcct) ==
  /\ IF r.op \in Watched
       THEN ret' = r /\ calls' = cs /\ sent' = sn
       ELSE UNCHANGED <<ret, calls, sent>>
  /\ prev' = IF r.op = "connect_mt5" /\ r.op \in Watched THEN prev ELSE NoPrev
  /\ e2e' = IF probe = "e2e" THEN E2EStep(r, rAcct) ELSE e2e
  /\ UNCHANGED probe

\* no response is being handed over
Quiet == ret = NoRet

\* a client issues its requests one at a time
Idle == dis.pc = "idle" /\ Quiet

\* the response of the request is handed to the client
Respond ==
  /\ ~Quiet
  /\ ret' = NoRet
  /\ calls' = <<>>
  /\ sent' = <<>>
  /\ prev' = Summary
  /\ UNCHANGED <<bridge, thr, dis, probe, e2e, lastPub, unpub, inflight>>

(***************************************************************************)
(* The requests.                                                           *)
(***************************************************************************)
\* POST /api/v1/connect: connect, then start_data_stream on success
ConnectMT5 ==
  /\ Idle
  /\ \E cred \in {"none", "numeric", "text"}, rInit \in BoolReplies :
     \E rLogin \in Asked(rInit = Val(TRUE) /\ cred = "numeric", BoolReplies) :
     \E rAcct \in Asked(rInit = Val(TRUE) /\ cred # "text"
                          /\ (cred = "numeric" => rLogin = Val(TRUE)),
                        AccountReplies) :
     \E rSyms \in Asked(IsVal(rAcct), SymbolsReplies) :
       LET c == connect(cred, rInit, rLogin, rAcct, rSyms)
           s == start_data_stream
       IN  /\ c.ok /\ ~running => \E t \in Threads : IsFree(t)
           /\ connected' = c.connected
           /\ account_info' = c.account_info
           /\ symbols' = c.symbols
           /\ IF c.ok
                THEN /\ running' = s.running
                     /\ data_thread' = s.data_thread
                     /\ thr' = s.thr
                ELSE UNCHANGED <<running, data_thread, thr>>
           /\ Observe([op |-> "connect_mt5", ok |-> c.ok,
                       started |-> c.ok /\ s.started], c.calls, <<>>, rAcct)
  /\ UNCHANGED <<market_data, positions, orders, dis, lastPub, unpub, inflight>>

\* MT5Bridge.disconnect, up to the join: the stop signal
DisconnectBegin ==
  /\ Idle
  /\ running' = FALSE
  /\ dis' = [pc |-> "join", target |-> data_thread, was |-> connected]
  /\ UNCHANGED <<connected, account_info, symbols, market_data, positions,
                 orders, data_thread, thr, observed, lastPub, unpub, inflight>>

\* the thread disconnect waits for has ended (or there was none)
Joined == IF dis.target = 0 THEN TRUE ELSE thr[dis.target].pc = "dead"

\* a disconnect that forgets to clear connected
DisconnectFinishStale ==
  /\ dis.pc = "join"
  /\ Quiet
  /\ Joined
  /\ dis' = [pc |-> "idle", target |-> 0, was |-> FALSE]
  /\ Observe([op |-> "disconnect", was |-> dis.was], <<"shutdown">>, <<>>, None)
  /\ UNCHANGED <<connected, account_info, symbols, market_data, positions,
                 orders, data_thread, running, thr, lastPub, unpub, inflight>>

\* MT5Bridge.disconnect, from the return of the join
DisconnectFinish ==
  /\ dis.pc = "join"
  /\ Quiet
  /\ Joined
  /\ connected' = FALSE
  /\ dis' = [pc |-> "idle", target |-> 0, was |-> FALSE]
  /\ Observe([op |-> "disconnect", was |-> dis.was], <<"shutdown">>, <<>>, None)
  /\ UNCHANGED <<account_info, symbols, market_data, positions, orders,
                 data_thread, running, thr, lastPub, unpub, inflight>>

\* GET /api/v1/account
GetAccount ==
  /\ Idle
  /\ \E rAcct \in Asked(connected, AccountReplies) :
       LET m == get_account_info(rAcct) IN
       IF ~connected
         THEN /\ Observe([op |-> "get_account", out |-> NotConnected],
                         <<>>, <<>>, rAcct)
              /\ UNCHANGED account_info
         ELSE /\ account_info' = m.account_info
              /\ Observe([op |-> "get_account",
                          out |-> IF IsVal(m.out)
                                    THEN [tag |-> "ok", v |-> m.out.v]
                                    ELSE Err(<<"Failed to get account info">>)],
                         m.calls, <<>>, rAcct)
  /\ UNCHANGED <<connected, symbols, market_data, positions, orders,
                 data_thread, running, thr, dis, lastPub, unpub, inflight>>

GetAccountInfo ==
  /\ Idle
  /\ \E rAcct \in Asked(connected, AccountReplies) :
       LET m == get_account_info(rAcct) IN
       /\ account_info' = m.account_info
       /\ Observe([op |-> "get_account_info", reply |-> rAcct, out |-> m.out],
               m.calls, <<>>, None)
  /\ UNCHANGED <<connected, symbols, market_data, positions, orders,
                 data_thread, running, thr, dis, lastPub, unpub, inflight>>

GetPositions ==
  /\ Idle
  /\ \E rPos \in Asked(connected, PositionsReplies) :
       LET m == get_positions(rPos) IN
       /\ positions' = m.positions
       /\ Observe([op |-> "get_positions", reply |-> rPos, out |-> m.out],
               m.calls, <<>>, None)
  /\ UNCHANGED <<connected, account_info, symbols, market_data, orders,
                 data_thread, running, thr, dis, lastPub, unpub, inflight>>

GetOrders ==
  /\ Idle
  /\ \E rOrd \in Asked(connected, OrdersReplies) :
       LET m == get_orders(rOrd) IN
       /\ orders' = m.orders
       /\ Observe([op |-> "get_orders", reply |-> rOrd, out |-> m.out],
               m.calls, <<>>, None)
  /\ UNCHANGED <<connected, account_info, symbols, market_data, positions,
                 data_thread, running, thr, dis, lastPub, unpub, inflight>>

GetMarketData ==
  /\ Idle
  /\ \E symbol \in Range(MajorPairs), rTick \in Asked(connected, TickReplies) :
       LET m == get_market_data(symbol, rTick) IN
       Observe([op |-> "get_market_data", out |-> m.out], m.calls, <<>>, None)
  /\ UNCHANGED <<bridge, thr, dis, lastPub, unpub, inflight>>

\* positions_get(ticket=...): an exception, None, nothing, or the position
TicketReplies(ticket) ==
  {Raise, None, Val(<<>>)} \cup
  {Val(<<PositionOf(ticket, ty)>>) : ty \in {POSITION_TYPE_BUY, POSITION_TYPE_SELL}}

PriceArgs == {None} \cup {Val(p) : p \in 1..MaxPrice}

PlaceOrder ==
  /\ Idle
  /\ \E order_type \in {ORDER_TYPE_BUY, ORDER_TYPE_SELL}, price \in PriceArgs,
        rInfo \in Asked(connected, InfoReplies) :
     \E rTick \in Asked(IsVal(rInfo) /\ price = None, TickReplies) :
     \E rSend \in Asked(IsVal(rInfo) /\ (price = None => IsVal(rTick)),
                        SendReplies) :
       LET m == place_order(MajorPairs[1], order_type, 1, price,
                            rInfo, rTick, rSend)
       IN  Observe([op |-> "place_order", type |-> order_type, price |-> price,
                    info |-> rInfo,
                    tick |-> IF price = None /\ "symbol_info_tick" \in Range(m.calls)
                               THEN rTick ELSE None,
                    send |-> rSend,
                    out |-> m.out],
                   m.calls, m.sent, None)
  /\ UNCHANGED <<bridge, thr, dis, lastPub, unpub, inflight>>

ClosePosition ==
  /\ Idle
  /\ \E ticket \in 1..MaxTicket :
     \E rPos \in Asked(connected, TicketReplies(ticket)) :
     \E rTick \in Asked(IsVal(rPos) /\ ~PositionMissing(rPos), TickReplies) :
     \E rSend \in Asked(IsVal(rTick), SendReplies) :
       LET m == close_position(ticket, rPos, rTick, rSend)
       IN  Observe([op |-> "close_position", ticket |-> ticket,
                    position |-> IF "positions_get" \in Range(m.calls)
                                   THEN rPos ELSE None,
                    tick |-> IF "symbol_info_tick" \in Range(m.calls)
                               THEN rTick ELSE None,
                    send |-> rSend,
                    out |-> m.out],
                   m.calls, m.sent, None)
  /\ UNCHANGED <<bridge, thr, dis, lastPub, unpub, inflight>>

\* a 'subscribe' handler that never sends the stored value
handle_subscribe_silent(symbol) == None

\* what the 'subscribe' handler emits to the subscriber (None: nothing)
handle_subscribe(symbol) ==
  IF symbol \in DOMAIN market_data THEN Val(market_data[symbol]) ELSE None

\* the 'subscribe' WebSocket event
HandleSubscribe ==
  /\ Idle
  /\ \E symbol \in Range(MajorPairs) :
       Observe([op |-> "subscribe", symbol |-> symbol,
                got |-> handle_subscribe(symbol),
                pub |-> IF symbol \in DOMAIN lastPub
                          THEN Val(lastPub[symbol]) ELSE None],
               <<>>, <<>>, None)
  /\ UNCHANGED <<bridge, thr, dis, lastPub, unpub, inflight>>

(***************************************************************************)
(* The streaming worker, MT5Bridge._data_stream_worker, one statement at   *)
(* a time.  A thread's iter and pubd record, for the pass over the         *)
(* watch-list in progress, what each fetch returned and which symbols      *)
(* were published.                                                         *)
(***************************************************************************)
Symbol(t) == MajorPairs[thr[t].idx]

\* the next symbol of the watch-list, or the end of the for loop
Advance(w) ==
  IF w.idx < NumPairs
    THEN [w EXCEPT !.pc = "fetch", !.idx = w.idx + 1, !.data = None]
    ELSE [w EXCEPT !.pc = "clock", !.idx = 0, !.data = None]

\* a worker that dies of the error it catches
CaughtDies(w) == NoThread

\* the except clause of the worker: log, then sleep 5
Caught(w) == [NoThread EXCEPT !.pc = "backoff"]

\* while self.running and self.connected
WLoop(t) ==
  /\ thr[t].pc = "loop"
  /\ Quiet
  /\ thr' = [thr EXCEPT ![t] =
               IF running /\ connected
                 THEN [NoThread EXCEPT !.pc = "fetch", !.idx = 1]
                 ELSE NoThread]
  /\ UNCHANGED <<bridge, dis, observed, lastPub, unpub, inflight>>

\* a worker that leaves the for loop at the first fetch that fails
AfterFetchBreak(w, symbol, data) ==
  LET seen == IF probe = "stream"
                THEN [w EXCEPT !.iter = Put(w.iter, symbol, data)] ELSE w IN
  IF IsVal(data) THEN [seen EXCEPT !.pc = "store", !.data = data]
                 ELSE [seen EXCEPT !.pc = "clock", !.idx = 0, !.data = None]

\* what the worker does with the outcome of a fetch: `if data:`
AfterFetch(w, symbol, data) ==
  LET seen == IF probe = "stream"
                THEN [w EXCEPT !.iter = Put(w.iter, symbol, data)] ELSE w IN
  IF IsVal(data) THEN [seen EXCEPT !.pc = "store", !.data = data]
                 ELSE Advance(seen)

\* data = self.get_market_data(symbol)
WFetch(t) ==
  /\ thr[t].pc = "fetch"
  /\ Quiet
  /\ \E rTick \in Asked(connected, TickReplies) :
       thr' = [thr EXCEPT ![t] =
                 AfterFetch(thr[t], Symbol(t), get_market_data(Symbol(t), rTick).out)]
  /\ UNCHANGED <<bridge, dis, observed, lastPub, unpub, inflight>>

\* self.market_data[symbol] = data
WStore(t) ==
  /\ thr[t].pc = "store"
  /\ Quiet
  /\ market_data' = Put(market_data, Symbol(t), thr[t].data.v)
  /\ unpub' = IF probe = "stream" THEN unpub \cup {Symbol(t)} ELSE unpub
  /\ thr' = [thr EXCEPT ![t].pc = "emit"]
  /\ UNCHANGED <<connected, account_info, symbols, positions, orders,
                 data_thread, running, dis, observed, lastPub, inflight>>

\* the worker after socketio.emit('market_data', data) has returned
AfterEmit(w, symbol) ==
  Advance(IF probe = "stream" THEN [w EXCEPT !.pubd = w.pubd \cup {symbol}] ELSE w)

\* socketio.emit('market_data', data): delivered, or it raises
WEmit(t) ==
  /\ thr[t].pc = "emit"
  /\ Quiet
  /\ \/ /\ lastPub' = IF probe = "stream"
                         THEN Put(lastPub, Symbol(t), thr[t].data.v) ELSE lastPub
        /\ unpub' = unpub \ {Symbol(t)}
        /\ thr' = [thr EXCEPT ![t] = AfterEmit(thr[t], Symbol(t))]
     \/ /\ thr' = [thr EXCEPT ![t] = Caught(thr[t])]
        /\ UNCHANGED <<lastPub, unpub>>
  /\ UNCHANGED <<bridge, dis, observed, inflight>>

\* if int(time.time()) % 5 == 0
WClock(t) ==
  /\ thr[t].pc = "clock"
  /\ Quiet
  /\ \E due \in BOOLEAN :
       thr' = [thr EXCEPT ![t] = [NoThread EXCEPT !.pc = IF due THEN "positions"
                                                                 ELSE "sleep"]]
  /\ UNCHANGED <<bridge, dis, observed, lastPub, unpub, inflight>>

\* positions = self.get_positions()
WPositions(t) ==
  /\ thr[t].pc = "positions"
  /\ Quiet
  /\ \E rPos \in Asked(connected, PositionsReplies) :
       positions' = get_positions(rPos).positions
  /\ thr' = [thr EXCEPT ![t].pc = "account"]
  /\ UNCHANGED <<connected, account_info, symbols, market_data, orders,
                 data_thread, running, dis, observed, lastPub, unpub, inflight>>

\* account = self.get_account_info()
WAccount(t) ==
  /\ thr[t].pc = "account"
  /\ Quiet
  /\ \E rAcct \in Asked(connected, AccountReplies) :
       account_info' = get_account_info(rAcct).account_info
  /\ thr' = [thr EXCEPT ![t].pc = "emit_positions"]
  /\ UNCHANGED <<connected, symbols, market_data, positions, orders,
                 data_thread, running, dis, observed, lastPub, unpub, inflight>>

\* socketio.emit('positions_update', positions): delivered, or it raises
WEmitPositions(t) ==
  /\ thr[t].pc = "emit_positions"
  /\ Quiet
  /\ \E ok \in BOOLEAN :
       thr' = [thr EXCEPT ![t] = IF ok THEN [@ EXCEPT !.pc = "emit_account"]
                                       ELSE Caught(@)]
  /\ UNCHANGED <<bridge, dis, observed, lastPub, unpub, inflight>>

\* socketio.emit('account_update', account): delivered, or it raises
WEmitAccount(t) ==
  /\ thr[t].pc = "emit_account"
  /\ Quiet
  /\ \E ok \in BOOLEAN :
       thr' = [thr EXCEPT ![t] = IF ok THEN [@ EXCEPT !.pc = "sleep"]
                                       ELSE Caught(@)]
  /\ UNCHANGED <<bridge, dis, observed, lastPub, unpub, inflight>>

\* time.sleep(1) at the end of an iteration
WSleep(t) ==
  /\ thr[t].pc = "sleep"
  /\ Quiet
  /\ thr' = [thr EXCEPT ![t].pc = "loop"]
  /\ UNCHANGED <<bridge, dis, observed, lastPub, unpub, inflight>>

\* time.sleep(5) in the except clause
WBackoff(t) ==
  /\ thr[t].pc = "backoff"
  /\ Quiet
  /\ thr' = [thr EXCEPT ![t].pc = "loop"]
  /\ UNCHANGED <<bridge, dis, observed, lastPub, unpub, inflight>>

\* the next statement of thread t
WorkerStep(t) ==
  \/ WLoop(t)
  \/ WFetch(t)
  \/ WStore(t)
  \/ WEmit(t)
  \/ WClock(t)
  \/ WPositions(t)
  \/ WAccount(t)
  \/ WEmitPositions(t)
  \/ WEmitAccount(t)
  \/ WSleep(t)
  \/ WBackoff(t)

Worker == \E t \in Threads : WorkerStep(t)

(***************************************************************************)
(* The program: one client issuing requests one at a time, and the         *)
(* worker thread running beside it.                                        *)
(***************************************************************************)
Next ==
  \/ ConnectMT5
  \/ DisconnectBegin
  \/ DisconnectFinish
  \/ GetAccount
  \/ GetAccountInfo
  \/ GetPositions
  \/ GetOrders
  \/ GetMarketData
  \/ PlaceOrder
  \/ ClosePosition
  \/ HandleSubscribe
  \/ Respond
  \/ Worker

Spec == Init /\ [][Next]_vars

\* the program under each observer
InitLifecycle == Start /\ probe = "lifecycle"
InitCalls == Start /\ probe = "calls"
InitE2E == Start /\ probe = "e2e"
InitStream == Start /\ probe = "stream"

SpecLifecycle == InitLifecycle /\ [][Next]_vars
SpecCalls == InitCalls /\ [][Next]_vars
SpecE2E == InitE2E /\ [][Next]_vars
SpecStream == InitStream /\ [][Next]_vars

(***************************************************************************)
(* Request handlers that run concurrently.  The server handles each       *)
(* request on a thread of its own and the code takes no lock, so a         *)
(* handler's statements interleave with those of other handlers and of     *)
(* the worker.  One connect request, one disconnect request and one trade  *)
(* request are in flight at a time.  A call into the driver takes time:    *)
(* order_send is modelled by the step that issues it and the step at       *)
(* which it returns.                                                       *)
(*                                                                         *)
(* NextThreads is the connect and disconnect handlers beside the worker    *)
(* threads.  NextTrade is the trade handler beside the worker and a        *)
(* client whose connect and disconnect requests follow one another.        *)
(***************************************************************************)
\* connect_mt5: success = mt5_bridge.connect(login, password, server)
ConnectCall ==
  /\ con = "idle"
  /\ \E cred \in {"none", "numeric", "text"}, rInit \in BoolReplies :
     \E rLogin \in Asked(rInit = Val(TRUE) /\ cred = "numeric", BoolReplies) :
     \E rAcct \in Asked(rInit = Val(TRUE) /\ cred # "text"
                          /\ (cred = "numeric" => rLogin = Val(TRUE)),
                        AccountReplies) :
     \E rSyms \in Asked(IsVal(rAcct), SymbolsReplies) :
       LET c == connect(cred, rInit, rLogin, rAcct, rSyms) IN
       /\ connected' = c.connected
       /\ account_info' = c.account_info
       /\ symbols' = c.symbols
       /\ con' = IF c.ok THEN "start" ELSE "idle"
       /\ drv' = [drv EXCEPT !.up = IF rInit = Val(TRUE) THEN TRUE ELSE @]
  /\ UNCHANGED <<market_data, positions, orders, data_thread, running, thr,
                 dis, observed, lastPub, unpub, trade>>

\* start_data_stream: if self.running: return; self.running = True
StreamCheck ==
  /\ con = "start"
  /\ IF running
       THEN con' = "idle" /\ UNCHANGED running
       ELSE con' = "spawn" /\ running' = TRUE
  /\ UNCHANGED <<connected, account_info, symbols, market_data, positions,
                 orders, data_thread, thr, dis, observed, lastPub, unpub,
                 trade, drv>>

\* start_data_stream: self.data_thread = Thread(...); self.data_thread.start()
StreamSpawn ==
  /\ con = "spawn"
  /\ \E t \in Threads : IsFree(t)
  /\ data_thread' = FreeThread
  /\ thr' = [thr EXCEPT ![FreeThread] = [NoThread EXCEPT !.pc = "loop"]]
  /\ con' = "idle"
  /\ UNCHANGED <<connected, account_info, symbols, market_data, positions,
                 orders, running, dis, observed, lastPub, unpub, trade, drv>>

\* disconnect: self.running = False
DisconnectStop ==
  /\ dis.pc = "idle"
  /\ running' = FALSE
  /\ dis' = [pc |-> "check", target |-> 0, was |-> connected]
  /\ UNCHANGED <<connected, account_info, symbols, market_data, positions,
                 orders, data_thread, thr, observed, lastPub, unpub, inflight>>

\* disconnect: if self.data_thread: (the thread to wait for)
DisconnectCheck ==
  /\ dis.pc = "check"
  /\ dis' = [dis EXCEPT !.pc = IF data_thread = 0 THEN "shutdown" ELSE "join",
                        !.target = data_thread]
  /\ UNCHANGED <<bridge, thr, observed, lastPub, unpub, inflight>>

\* disconnect: self.data_thread.join() returns
DisconnectJoin ==
  /\ dis.pc = "join"
  /\ Joined
  /\ dis' = [dis EXCEPT !.pc = "shutdown"]
  /\ UNCHANGED <<bridge, thr, observed, lastPub, unpub, inflight>>

\* disconnect: mt5.shutdown()
DisconnectShutdown ==
  /\ dis.pc = "shutdown"
  /\ dis' = [dis EXCEPT !.pc = "clear"]
  /\ drv' = [drv EXCEPT !.up = FALSE]
  /\ UNCHANGED <<bridge, thr, observed, lastPub, unpub, con, trade>>

\* disconnect: self.connected = False, and the return
DisconnectClear ==
  /\ dis.pc = "clear"
  /\ connected' = FALSE
  /\ dis' = [pc |-> "idle", target |-> 0, was |-> FALSE]
  /\ UNCHANGED <<account_info, symbols, market_data, positions, orders,
                 data_thread, running, thr, observed, lastPub, unpub, inflight>>

TradeOps == {"place_order", "close_position"}

\* place_order / close_position: if not self.connected: return the error
TradeCheck ==
  /\ trade.pc = "idle"
  /\ \E op \in TradeOps :
       trade' = IF connected THEN [pc |-> "price", op |-> op] ELSE NoTrade
  /\ UNCHANGED <<bridge, thr, dis, observed, lastPub, unpub, con, drv>>

\* the driver calls before the request is built: symbol_info and, when no
\* price was given, symbol_info_tick in place_order; positions_get and
\* symbol_info_tick in close_position; any of them failing makes the method
\* return
TradePrice ==
  /\ trade.pc = "price"
  /\ \E priced \in IF trade.op = "place_order" THEN BOOLEAN ELSE {FALSE},
        rFirst \in IF trade.op = "place_order" THEN InfoReplies
                                               ELSE TicketReplies(1) :
     \E rTick \in Asked(IsVal(rFirst) /\ ~priced, TickReplies) :
       trade' = IF /\ IsVal(rFirst)
                   /\ trade.op = "close_position" => ~PositionMissing(rFirst)
                   /\ priced \/ IsVal(rTick)
                  THEN [trade EXCEPT !.pc = "send"]
                  ELSE NoTrade
  /\ UNCHANGED <<bridge, thr, dis, observed, lastPub, unpub, con, drv>>

\* result = mt5.order_send(request): the call is issued
TradeSend ==
  /\ trade.pc = "send"
  /\ trade' = [trade EXCEPT !.pc = "sent"]
  /\ drv' = [drv EXCEPT !.busy = TRUE]
  /\ UNCHANGED <<bridge, thr, dis, observed, lastPub, unpub, con>>

\* mt5.order_send returns and the method returns its result
TradeReturn ==
  /\ trade.pc = "sent"
  /\ trade' = NoTrade
  /\ drv' = [drv EXCEPT !.busy = FALSE]
  /\ UNCHANGED <<bridge, thr, dis, observed, lastPub, unpub, con>>

NextThreads ==
  \/ ConnectCall
  \/ StreamCheck
  \/ StreamSpawn
  \/ DisconnectStop
  \/ DisconnectCheck
  \/ DisconnectJoin
  \/ DisconnectShutdown
  \/ DisconnectClear
  \/ Worker

InitThreads == Start /\ probe = "threads"

SpecThreads == InitThreads /\ [][NextThreads]_vars

\* every thread that can take a step is scheduled: the worker threads, and
\* the handlers once their request has arrived
FairThreads ==
  /\ SpecThreads
  /\ \A t \in Threads : WF_vars(WorkerStep(t))
  /\ WF_vars(StreamCheck \/ StreamSpawn)
  /\ WF_vars(DisconnectCheck \/ DisconnectJoin \/ DisconnectShutdown
               \/ DisconnectClear)

\* a connect request that arrives while no disconnect is in progress
ConnectAlone == dis.pc = "idle" /\ ConnectCall

\* a disconnect request that arrives while no connect is in progress
DisconnectAlone == con = "idle" /\ DisconnectStop

NextTrade ==
  \/ ConnectAlone
  \/ StreamCheck
  \/ StreamSpawn
  \/ DisconnectAlone
  \/ DisconnectCheck
  \/ DisconnectJoin
  \/ DisconnectShutdown
  \/ DisconnectClear
  \/ TradeCheck
  \/ TradePrice
  \/ TradeSend
  \/ TradeReturn
  \/ Worker

SpecTrade == InitThreads /\ [][NextTrade]_vars

(***************************************************************************)
(* Properties.                                                             *)
(***************************************************************************)
GuardedOps ==
  {"place_order", "close_position", "get_account_info", "get_positions",
   "get_orders", "get_market_data"}

\* the value each guarded operation returns when the bridge is not connected
NotConnectedOutcome(r) ==
  CASE r.op \in {"place_order", "close_position"} -> r.out = NotConnected
    [] r.op \in {"get_account_info", "get_market_data"} -> r.out = None
    [] OTHER -> r.out = <<>>

\* C1: place_order, close_position, get_account_info, get_positions,
\* get_orders and get_market_data, invoked while connected is False, return
\* their not-connected outcome, call nothing in the driver and change no
\* field of the bridge.
C1_NotConnectedIsNoOp ==
  [][(Quiet /\ ~connected /\ ret'.op \in GuardedOps)
       => /\ NotConnectedOutcome(ret')
          /\ calls' = <<>>
          /\ sent' = <<>>
          /\ UNCHANGED bridge]_vars

\* C1's case: an order placed on a bridge that was connected and is now
\* disconnected
C1_Witness ==
  /\ ret.op = "place_order"
  /\ ~connected
  /\ account_info # None
  /\ ret.out = NotConnected

\* C2: two connect requests in a row, the bridge Connected after the first,
\* make at most one session-level connect (mt5.initialize) and start the
\* stream at most once.
C2_ConnectTwiceOneSession ==
  (ret.op = "connect_mt5" /\ prev.op = "connect_mt5" /\ prev.conn)
    => /\ prev.inits + Count(calls, "initialize") <= 1
       /\ prev.starts + (IF ret.started THEN 1 ELSE 0) <= 1

\* C3: disconnect on a bridge that is already Disconnected returns, leaves
\* connected and running False and makes no teardown call on the terminal.
C3_DisconnectWhenDisconnected ==
  (ret.op = "disconnect" /\ ~ret.was)
    => /\ ~connected
       /\ ~running
       /\ Count(calls, "shutdown") = 0

\* C4: after a connect request that fails, the bridge is not Connected and
\* the request has not started the stream.
C4_FailedConnectNotConnected ==
  (ret.op = "connect_mt5" /\ ~ret.ok) => (~connected /\ ~ret.started)

\* C5: every place_order without an explicit price that submits a deal
\* submits it at the ask of the tick it fetched for a buy, and at the bid of
\* that tick for a sell.
C5_SubmittedPrice ==
  (ret.op = "place_order" /\ ret.price = None /\ Len(sent) > 0)
    => /\ Len(sent) = 1
       /\ IsVal(ret.tick)
       /\ ret.type = ORDER_TYPE_BUY => sent[1].price = ret.tick.v.ask
       /\ ret.type = ORDER_TYPE_SELL => sent[1].price = ret.tick.v.bid

\* C5's case: a buy without a price, submitted at the ask
C5_Witness ==
  /\ ret.op = "place_order"
  /\ ret.price = None
  /\ ret.type = ORDER_TYPE_BUY
  /\ Len(sent) = 1
  /\ sent[1].price = ret.tick.v.ask
  /\ ret.tick.v.ask # ret.tick.v.bid

\* close_position found the position and the driver has a current tick for
\* its symbol
CloseReachesPricing ==
  /\ ret.op = "close_position"
  /\ IsVal(ret.position)
  /\ Len(ret.position.v) > 0
  /\ IsVal(ret.tick)

\* C6: close_position on ticket T submits exactly one deal, which references
\* T and carries the position's symbol and volume: a sell at the current bid
\* when the position is a buy, a buy at the current ask when it is a sell.
C6_CloseSubmitsOppositeDeal ==
  CloseReachesPricing
    => LET position == ret.position.v[1]
           tick == ret.tick.v
       IN  /\ Len(sent) = 1
           /\ Count(calls, "order_send") = 1
           /\ sent[1].position = ret.ticket
           /\ sent[1].symbol = position.symbol
           /\ sent[1].volume = position.volume
           /\ position.type = POSITION_TYPE_BUY
                => sent[1].type = ORDER_TYPE_SELL /\ sent[1].price = tick.bid
           /\ position.type = POSITION_TYPE_SELL
                => sent[1].type = ORDER_TYPE_BUY /\ sent[1].price = tick.ask

\* C6's case: a short position closed by a buy at the ask
C6_Witness ==
  /\ CloseReachesPricing
  /\ ret.position.v[1].type = POSITION_TYPE_SELL
  /\ Len(sent) = 1
  /\ sent[1].type = ORDER_TYPE_BUY
  /\ sent[1].price = ret.tick.v.ask

\* close_position asked the driver for the position and the driver reported
\* none
CloseFindsNothing ==
  /\ ret.op = "close_position"
  /\ "positions_get" \in Range(calls)
  /\ \/ ret.position = None
     \/ IsVal(ret.position) /\ Len(ret.position.v) = 0

\* C7: close_position on a ticket for which the driver reports no position
\* returns the position-not-found failure and submits nothing.
C7_UnknownTicketNotSubmitted ==
  CloseFindsNothing
    => /\ ret.out = Err(<<"Position not found", ToString(ret.ticket)>>)
       /\ Count(calls, "order_send") = 0
       /\ sent = <<>>

\* C7's case: the driver answers the lookup with an empty tuple
C7_Witness ==
  /\ CloseFindsNothing
  /\ ret.position = Val(<<>>)
  /\ ret.out.tag = "error"

\* the symbols the worker has dealt with in the pass in progress
Passed(w) ==
  {MajorPairs[i] : i \in 1..(IF w.pc = "clock" THEN NumPairs ELSE w.idx - 1)}

\* C8: in one pass over the watch-list, whenever the worker moves on to the
\* next symbol or leaves the loop, every symbol before was fetched, and each
\* one whose fetch succeeded is stored in market_data and was published,
\* whichever fetches failed.
C8_FailedFetchSkipsOneSymbol ==
  \A t \in Threads :
    thr[t].pc \in {"fetch", "clock"}
      => /\ DOMAIN thr[t].iter = Passed(thr[t])
         /\ \A s \in DOMAIN thr[t].iter :
              IsVal(thr[t].iter[s])
                => /\ s \in thr[t].pubd
                   /\ s \in DOMAIN market_data
                   /\ market_data[s] = thr[t].iter[s].v
                   /\ s \in DOMAIN lastPub
                   /\ lastPub[s] = thr[t].iter[s].v

\* C8's case: the first symbol's fetch failed, the second's succeeded and
\* was published
C8_Witness ==
  \E t \in Threads :
    /\ thr[t].pc = "clock"
    /\ thr[t].iter[MajorPairs[1]] = None
    /\ IsVal(thr[t].iter[MajorPairs[2]])
    /\ MajorPairs[2] \in thr[t].pubd

\* C9: in connect (the driver reporting balance B) ; accountInfo ;
\* disconnect ; accountInfo, the first accountInfo returns a snapshot with
\* balance B and the second fails with the not-connected error.
C9_EndToEnd ==
  (e2e.stage = 4 /\ ret.op = "get_account")
    => /\ e2e.r1.tag = "ok"
       /\ e2e.r1.v.balance = e2e.bal
       /\ ret.out = NotConnected

\* C9's case: the scenario has run to its end with the larger balance
C9_Witness ==
  /\ e2e.stage = 4
  /\ ret.op = "get_account"
  /\ e2e.bal = MaxBalance

\* C10, as claimed: market_data[S] is always the payload of the last
\* market_data event published for S, and a subscriber to S, after an event
\* for S was published, receives the payload of the last one.
C10_StoredIsLastPublished ==
  /\ \A s \in DOMAIN lastPub : market_data[s] = lastPub[s]
  /\ (ret.op = "subscribe" /\ IsVal(ret.pub)) => ret.got = ret.pub

\* C10, amended: a subscriber to S, after an event for S was published,
\* receives the value stored in market_data[S]; that value is the payload of
\* the last market_data event published for S unless the worker has stored
\* a sample for S that it has not published (yet, or because the publish
\* raised).
C10_StoredIsLastPublishedOrPending ==
  /\ \A s \in DOMAIN lastPub :
       /\ s \in DOMAIN market_data
       /\ s \notin unpub => market_data[s] = lastPub[s]
  /\ (ret.op = "subscribe" /\ IsVal(ret.pub))
       => /\ IsVal(ret.got)
          /\ ret.got.v = market_data[ret.symbol]
          /\ ret.symbol \notin unpub => ret.got = ret.pub

\* C10's case: a subscriber arrives after a publish and gets its payload
C10_Witness ==
  /\ ret.op = "subscribe"
  /\ IsVal(ret.pub)
  /\ ret.symbol \notin unpub
  /\ ret.got = ret.pub

\* C17: an accessor (get_account_info, get_positions, get_orders) that the
\* driver answers while the bridge is connected, an empty list included,
\* leaves in its field the value it returns.
C17_RefreshReplacesField ==
  /\ (ret.op = "get_account_info" /\ calls # <<>> /\ IsVal(ret.reply))
       => account_info = ret.out
  /\ (ret.op = "get_positions" /\ calls # <<>> /\ IsVal(ret.reply))
       => positions = ret.out
  /\ (ret.op = "get_orders" /\ calls # <<>> /\ IsVal(ret.reply))
       => orders = ret.out

\* the driver answered the deal place_order or close_position submitted
\* with a return code other than TRADE_RETCODE_DONE
Refused(r) ==
  /\ r.op \in {"place_order", "close_position"}
  /\ IsVal(r.send)
  /\ r.send.v.retcode # TRADE_RETCODE_DONE

\* the driver does not know the symbol of the order, or has no position
\* under the ticket
Unknown(r) ==
  \/ r.op = "place_order" /\ r.info = None
  \/ /\ r.op = "close_position"
     /\ \/ r.position = None
        \/ IsVal(r.position) /\ Len(r.position.v) = 0

\* C18: a refused deal makes place_order and close_position return a
\* failure with the venue's comment after exactly one order_send; an unknown
\* symbol or position makes them return a failure without any order_send;
\* in both cases no field of the bridge changes.
C18_TradeFailureFrame ==
  [][(Quiet /\ connected /\ ret'.op \in {"place_order", "close_position"})
       => /\ Refused(ret')
               => /\ ret'.out =
                       Err(<<IF ret'.op = "place_order" THEN "Order failed"
                                                       ELSE "Close failed",
                             ret'.send.v.comment>>)
                  /\ Count(calls', "order_send") = 1
                  /\ Len(sent') = 1
                  /\ UNCHANGED bridge
          /\ Unknown(ret')
               => /\ ret'.out.tag = "error"
                  /\ Count(calls', "order_send") = 0
                  /\ sent' = <<>>
                  /\ UNCHANGED bridge]_vars

\* C18's case: the venue refused the order place_order submitted
C18_Witness ==
  /\ ret.op = "place_order"
  /\ Refused(ret)
  /\ Len(sent) = 1
  /\ ret.out = Err(<<"Order failed", "Rejected">>)

\* the worker threads that have not finished
Alive == {t \in Threads : thr[t].pc # "dead"}

\* thread t issues a call into the driver in this step: the accessors the
\* worker calls reach the driver when connected is True
WorkerCalls(t) ==
  /\ thr[t].pc \in {"fetch", "positions", "account"}
  /\ thr'[t] # thr[t]
  /\ connected

\* C11: whatever the interleaving of connect and disconnect requests, at
\* most one streaming worker is alive at a time.
C11_OneWorkerAlive == Cardinality(Alive) <= 1

\* C12: disconnect calls mt5.shutdown() only when every worker has exited,
\* and no worker calls into the driver after that shutdown.
C12_NoWorkerCallAfterShutdown ==
  [][/\ (dis.pc = "shutdown" /\ dis'.pc = "clear") => Alive = {}
     /\ \A t \in Threads : WorkerCalls(t) => drv.up]_vars

\* C13: no call into the driver is issued, by a worker or by disconnect's
\* shutdown, while the order_send of a trade request has not returned.
C13_OneDriverCallAtATime ==
  [][((\E t \in Threads : WorkerCalls(t))
        \/ (dis.pc = "shutdown" /\ dis'.pc = "clear"))
       => ~drv.busy]_vars

\* C14: once disconnect has shut the driver down and cleared connected, no
\* place_order or close_position in flight submits a deal.
C14_NoDealAfterDisconnect ==
  [][(trade.pc = "send" /\ trade'.pc = "sent") => (connected \/ drv.up)]_vars

\* C15: once disconnect has cleared running, the worker ends and disconnect
\* returns, connect requests running beside it or not.
C15_DisconnectReturns == (dis.pc = "check") ~> (dis.pc = "idle")

\* thread t ends in this step
Exits(t) == thr[t].pc # "dead" /\ thr'[t].pc = "dead"

\* an error never ends the worker: a thread ends only at the test of the
\* while loop, and after the except clause it is back at that test
ErrorsContained ==
  \A t \in Threads :
    /\ Exits(t) => thr[t].pc = "loop"
    /\ (thr[t].pc = "backoff" /\ thr'[t] # thr[t]) => thr'[t].pc = "loop"

C19_RunningMeansWorker == running => (Alive # {} \/ con = "spawn")

=============================================================================
